---- MODULE Spec2Model ----
(***************************************************************************)
(* Model of the IGA correction loop: the geometry planner (geometry.py),   *)
(* the mask renderer (correction.py), the mocked perception wrapper        *)
(* (analysis.py) and the grid correction pipeline (main.py).               *)
(*                                                                         *)
(* Python's true division is modelled with exact rationals <<n, d>>        *)
(* (d > 0, lowest terms).  Angles are kept as rational multiples of pi,    *)
(* so theta = q * pi is represented by q; radii and spiral points, which   *)
(* need exp/cos/sin, are kept as symbolic records of their arguments.      *)
(***************************************************************************)
EXTENDS Integers, Sequences, FiniteSets, TLC

\* ---------------------------------------------------------------- bounds
MaxRows == 13
MaxCols == 4
MaxDim == 3
MaxCount == 4

\* ------------------------------------------------------ exact arithmetic
Abs(n) == IF n < 0 THEN 0 - n ELSE n

RECURSIVE GCD(_, _)
GCD(a, b) == IF b = 0 THEN a ELSE GCD(b, a % b)

Norm(n, d) ==
    LET g == GCD(Abs(n), Abs(d))
        s == IF d < 0 THEN 0 - 1 ELSE 1
    IN  <<(s * n) \div g, (s * d) \div g>>

Rat(n) == <<n, 1>>
RAdd(p, q) == Norm(p[1] * q[2] + q[1] * p[2], p[2] * q[2])
RSub(p, q) == Norm(p[1] * q[2] - q[1] * p[2], p[2] * q[2])
RMul(p, q) == Norm(p[1] * q[1], p[2] * q[2])
RDiv(p, q) == Norm(p[1] * q[2], p[2] * q[1])
RLt(p, q) == p[1] * q[2] < q[1] * p[2]
RMax(p, q) == IF RLt(p, q) THEN q ELSE p
Max(a, b) == IF a < b THEN b ELSE a

\* ------------------------------------------------------------ geometry.py
\* one loop body of calculate_grid_positions (lines 14-16)
GridCellSwapped(start_x, start_y, row, col, cell_width, cell_height, spacing) ==
    << RAdd(RAdd(start_x, RMul(Rat(row), RAdd(cell_width, spacing))),
            RDiv(cell_width, Rat(2))),
       RAdd(RAdd(start_y, RMul(Rat(col), RAdd(cell_height, spacing))),
            RDiv(cell_height, Rat(2))) >>

GridCell(start_x, start_y, row, col, cell_width, cell_height, spacing) ==
    << RAdd(RAdd(start_x, RMul(Rat(col), RAdd(cell_width, spacing))),
            RDiv(cell_width, Rat(2))),
       RAdd(RAdd(start_y, RMul(Rat(row), RAdd(cell_height, spacing))),
            RDiv(cell_height, Rat(2))) >>

\* inner loop: for col in range(cols), starting at col
RECURSIVE GridColLoop(_, _, _, _, _, _, _, _)
GridColLoop(col, cols, start_x, start_y, row, cell_width, cell_height, spacing) ==
    IF col >= cols THEN <<>>
    ELSE <<GridCell(start_x, start_y, row, col, cell_width, cell_height, spacing)>>
         \o GridColLoop(col + 1, cols, start_x, start_y, row,
                        cell_width, cell_height, spacing)

\* outer loop: for row in range(rows), starting at row
RECURSIVE GridRowLoop(_, _, _, _, _, _, _, _)
GridRowLoop(row, rows, cols, start_x, start_y, cell_width, cell_height, spacing) ==
    IF row >= rows THEN <<>>
    ELSE GridColLoop(0, cols, start_x, start_y, row, cell_width, cell_height, spacing)
         \o GridRowLoop(row + 1, rows, cols, start_x, start_y,
                        cell_width, cell_height, spacing)

calculate_grid_positions(top_left, rows, cols, cell_width, cell_height, spacing) ==
    GridRowLoop(0, rows, cols, top_left[1], top_left[2],
                cell_width, cell_height, spacing)

\* t = i / max(1, count - 1)   (line 33)
SpiralTNoEndpoint(i, count) == RDiv(Rat(i), Rat(Max(1, count)))

SpiralTFloorDiv(i, count) == Rat(i \div Max(1, count - 1))

SpiralT(i, count) == RDiv(Rat(i), Rat(Max(1, count - 1)))

\* total_angle = turns * 2 * pi, in units of pi   (line 29)
TotalAngle(turns) == RMul(turns, Rat(2))

\* start_rad = math.radians(start_angle), in units of pi   (line 30)
StartRad(start_angle) == RDiv(start_angle, Rat(180))

\* theta = start_rad + t * total_angle, in units of pi   (line 34)
SpiralTheta(i, count, start_angle, turns) ==
    RAdd(StartRad(start_angle), RMul(SpiralT(i, count), TotalAngle(turns)))

\* the radius law (lines 36-43); the value is kept symbolic
SpiralRadius(spiral_type, a, b, theta) ==
    IF spiral_type = "archimedean"
    THEN [law |-> "a + b*theta", a |-> a, b_theta |-> RMul(b, theta)]
    ELSE [law |-> "max(1,a) * exp(b*theta)", a |-> RMax(Rat(1), a),
          b_theta |-> RMul(b, theta)]

\* the point (cx + radius*cos(theta), cy + radius*sin(theta))   (lines 45-55)
SpiralPoint(center, radius, theta) ==
    [cx |-> center[1], cy |-> center[2], radius |-> radius, theta |-> theta]

\* for i in range(count), starting at i   (lines 32-55)
RECURSIVE SpiralLoop(_, _, _, _, _, _, _, _)
SpiralLoop(i, center, count, spiral_type, a, b, start_angle, turns) ==
    IF i >= count THEN <<>>
    ELSE LET theta == SpiralTheta(i, count, start_angle, turns)
         IN  <<SpiralPoint(center, SpiralRadius(spiral_type, a, b, theta), theta)>>
             \o SpiralLoop(i + 1, center, count, spiral_type, a, b,
                           start_angle, turns)

calculate_spiral_positions(center, count, spiral_type, a, b, start_angle, turns) ==
    SpiralLoop(0, center, count, spiral_type, a, b, start_angle, turns)

\* a call outcome: the value returned, or the exception raised
Returned(v) == [raised |-> "none", value |-> v]
Raised(e) == [raised |-> e, value |-> "none"]

\* placeholder whose body is `pass`: returns None   (lines 59-66)
generate_mandala_mask(width, height, axes, layers) == Returned("None")

\* ------------------------------------------------------------ analysis.py
UpperChars == <<"A","B","C","D","E","F","G","H","I","J","K","L","M",
                "N","O","P","Q","R","S","T","U","V","W","X","Y","Z">>
LowerChars == <<"a","b","c","d","e","f","g","h","i","j","k","l","m",
                "n","o","p","q","r","s","t","u","v","w","x","y","z">>

\* str.lower() on a string kept as a sequence of characters
LowerChar(c) ==
    IF \E k \in 1..Len(UpperChars) : UpperChars[k] = c
    THEN LowerChars[CHOOSE k \in 1..Len(UpperChars) : UpperChars[k] = c]
    ELSE c
Lower(s) == [k \in 1..Len(s) |-> LowerChar(s[k])]

\* the `in` operator on strings: sub occurs in s
Contains(sub, s) ==
    \E k \in 0..(Len(s) - Len(sub)) :
        \A j \in 1..Len(sub) : s[k + j] = sub[j]

\* VLMAnalyzer.analyze   (lines 13-51)
analyze(image_path, prompt) ==
    IF Contains(<<"g","r","i","d">>, Lower(prompt))
    THEN Returned([object_count |-> 13, expected_count |-> 16, layout |-> "grid"])
    ELSE IF Contains(<<"s","p","i","r","a","l">>, Lower(prompt))
    THEN Returned([object_count |-> 11, expected_count |-> 12, layout |-> "spiral"])
    ELSE IF Contains(<<"m","a","n","d","a","l","a">>, Lower(prompt))
    THEN Returned([object_count |-> 45, layout |-> "radial"])
    ELSE Returned([error |-> "Unknown pattern"])

\* ---------------------------------------------------------- correction.py
\* Image.new('RGB', (width, height), ...): Pillow rejects a negative size
\* with ValueError and accepts a zero one
ImageNew(width, height) ==
    IF width < 0 \/ height < 0 THEN Raised("ValueError")
    ELSE Returned([size |-> <<width, height>>, ops |-> <<>>])

\* the box [x - half, y - half, x + half, y + half] around a centre
BoxAnchored(c, half) ==
    <<c[1], c[2], RAdd(c[1], RAdd(half, half)), RAdd(c[2], RAdd(half, half))>>

BoxAround(c, half) ==
    <<RSub(c[1], half), RSub(c[2], half), RAdd(c[1], half), RAdd(c[2], half)>>

Rectangle(c, half, line_width) ==
    [shape |-> "rectangle", box |-> BoxAround(c, half), width |-> line_width]

\* generate_grid_mask: for i, (cx, cy) in enumerate(centers)   (lines 32-44)
RECURSIVE DrawGridLoop(_, _, _)
DrawGridLoop(i, centers, cell_w) ==
    IF i > Len(centers) THEN <<>>
    ELSE <<Rectangle(centers[i], RDiv(cell_w, Rat(2)), 5)>>
         \o DrawGridLoop(i + 1, centers, cell_w)

\* cell_w = width / (cols + 1)   (line 20)
GridMaskCellW(width, cols) == RDiv(Rat(width), Rat(cols + 1))

\* the centring and planning of generate_grid_mask   (lines 20-30)
GridMaskCenters(width, height, rows, cols) ==
    LET cell_w == GridMaskCellW(width, cols)
        spacing == Rat(20)
        grid_w == RSub(RMul(Rat(cols), RAdd(cell_w, spacing)), spacing)
        grid_h == RSub(RMul(Rat(rows), RAdd(cell_w, spacing)), spacing)
        start_x == RDiv(RSub(Rat(width), grid_w), Rat(2))
        start_y == RDiv(RSub(Rat(height), grid_h), Rat(2))
    IN  calculate_grid_positions(<<start_x, start_y>>, rows, cols,
                                 cell_w, cell_w, spacing)

\* CorrectionEngine.generate_grid_mask   (lines 8-49)
generate_grid_mask(width, height, rows, cols) ==
    IF ImageNew(width, height).raised # "none" THEN ImageNew(width, height)
    ELSE IF cols + 1 = 0 THEN Raised("ZeroDivisionError")
    ELSE Returned([size |-> <<width, height>>,
                   ops |-> DrawGridLoop(1, GridMaskCenters(width, height, rows, cols),
                                        GridMaskCellW(width, cols))])

Ellipse(p, r, line_width) ==
    [shape |-> "ellipse", center |-> p, r |-> r, width |-> line_width]

\* generate_spiral_mask: for i, (cx, cy) in enumerate(points)   (lines 59-61)
RECURSIVE DrawSpiralLoop(_, _)
DrawSpiralLoop(i, points) ==
    IF i > Len(points) THEN <<>>
    ELSE <<Ellipse(points[i], 30, 3)>> \o DrawSpiralLoop(i + 1, points)

\* the planning of generate_spiral_mask   (lines 56-57)
SpiralMaskPoints(width, height, count) ==
    calculate_spiral_positions(<<RDiv(Rat(width), Rat(2)), RDiv(Rat(height), Rat(2))>>,
                               count, "logarithmic", Rat(20), <<7, 20>>,
                               Rat(0), <<5, 2>>)

\* CorrectionEngine.generate_spiral_mask   (lines 51-63)
generate_spiral_mask(width, height, count) ==
    IF ImageNew(width, height).raised # "none" THEN ImageNew(width, height)
    ELSE Returned([size |-> <<width, height>>,
                   ops |-> DrawSpiralLoop(1, SpiralMaskPoints(width, height, count))])

\* ---------------------------------------------------------- generation.py
\* GenerationEngine.generate   (lines 22-33)
generate(prompt, control_image, api) == Returned("generated_output.png")

\* ---------------------------------------------------------------- main.py
\* the mocked detector always reports 13 objects   (lines 10-21)
mock_yolo_detect(path, target_class) == 13

\* the test `count != target_count`   (line 35)
NeedsCorrectionWhenFewer(observed, expected) == observed < expected

NeedsCorrection(observed, expected) == observed # expected

\* step 2 of correct_image_grid: centring and planning   (lines 41-49)
PipelinePositions(r, c) ==
    LET width == Rat(1024)
        height == Rat(1024)
        cell_w == Rat(200)
        spacing == Rat(20)
        grid_w == RMul(Rat(c), RAdd(cell_w, spacing))
        grid_h == RMul(Rat(r), RAdd(cell_w, spacing))
        top_left == <<RDiv(RSub(width, grid_w), Rat(2)),
                      RDiv(RSub(height, grid_h), Rat(2))>>
    IN  calculate_grid_positions(top_left, r, c, cell_w, cell_w, spacing)

Text(c, number) == [shape |-> "text", at |-> c, text |-> number]

\* step 3: for i, (x, y) in enumerate(true_positions)   (lines 57-63)
RECURSIVE DrawPipelineLoop(_, _)
DrawPipelineLoop(i, positions) ==
    IF i > Len(positions) THEN <<>>
    ELSE <<Rectangle(positions[i], RDiv(Rat(200), Rat(2)), 4),
           Text(positions[i], i)>>
         \o DrawPipelineLoop(i + 1, positions)

\* the mask drawn by step 3   (lines 54-63)
PipelineMask(positions) ==
    [size |-> <<1024, 1024>>, ops |-> DrawPipelineLoop(1, positions)]

\* the path the mask is saved to   (line 65)
MaskPathFromCaller(out) == out

MaskPath(out) == "debug_mask_grid.png"

\* writing a file: the path now holds the content
WriteFile(fs, path, content) ==
    [q \in (DOMAIN fs) \cup {path} |-> IF q = path THEN content ELSE fs[q]]

\* ------------------------------------------------------------------ state
VARIABLES
    pc,              \* position of correct_image_grid
    image_path,      \* its arguments
    output_path,
    rows,
    cols,
    count,           \* its locals
    target_count,
    fail_reported,   \* the FAIL line of line 36 was printed
    true_positions,
    mask,            \* <<>> until created, then <<the mask>>
    files,           \* the file system: path -> content
    log,             \* the stages run so far, in order
    call,            \* the direct call of a library function, if one was made
    gen_calls        \* the invocations of GenerationEngine.generate

vars == <<pc, image_path, output_path, rows, cols, count, target_count,
          fail_reported, true_positions, mask, files, log, call, gen_calls>>

pipeline_vars == <<pc, image_path, output_path, rows, cols, count, target_count,
                   fail_reported, true_positions, mask, files, log, gen_calls>>

NoCall == [op |-> "none", args |-> <<>>, result |-> Returned("none"), points |-> <<>>]

\* ----------------------------------------------------------------- inputs
ImagePaths == {"mock_input.png"}
OutputPaths == {"corrected_grid.png", "debug_mask_grid.png"}
CanvasSizes == {0 - 100, 0, 300, 1024}
TopLefts == {<<Rat(0), Rat(0)>>, <<Rat(0 - 3), <<7, 2>>>>}
CellSizes == {Rat(10), <<5, 2>>}
Spacings == {Rat(0), Rat(2)}
SpiralTypes == {"archimedean", "logarithmic", "fermat"}
StartAngles == {Rat(0), Rat(90), Rat(0 - 45)}
Turns == {Rat(2), <<5, 2>>, Rat(0), Rat(0 - 1)}
GrowthA == {Rat(0), Rat(20)}
Prompts == { <<"4","x","4"," ","G","r","i","d">>,
             <<"S","P","I","R","A","L">>,
             <<"a"," ","m","a","n","d","a","l","a">>,
             <<"h","e","x","a","g","o","n","s">>,
             <<"g","r","i","s"," ","s","p","i","r","a","l">> }

Init ==
    /\ pc = "idle"
    /\ image_path = ""
    /\ output_path = ""
    /\ rows = 0
    /\ cols = 0
    /\ count = 0
    /\ target_count = 0
    /\ fail_reported = FALSE
    /\ true_positions = <<>>
    /\ mask = <<>>
    /\ files = <<>>
    /\ log = <<>>
    /\ call = NoCall
    /\ gen_calls = <<>>

\* ---------------------------------------------------- correct_image_grid
\* the call itself   (line 23; main() passes the defaults, lines 73-80)
Enter ==
    \E ip \in ImagePaths, op \in OutputPaths, r \in 0..MaxRows, c \in 0..MaxCols :
        /\ pc = "idle"
        /\ call.op = "none"
        /\ pc' = "Start"
        /\ image_path' = ip
        /\ output_path' = op
        /\ rows' = r
        /\ cols' = c
        /\ UNCHANGED <<count, target_count, fail_reported, true_positions,
                       mask, files, log, call, gen_calls>>

\* 1. Detect   (line 32)
Detect ==
    /\ pc = "Start"
    /\ count' = mock_yolo_detect(image_path, "book")
    /\ log' = Append(log, "perception")
    /\ pc' = "Detected"
    /\ UNCHANGED <<image_path, output_path, rows, cols, target_count,
                   fail_reported, true_positions, mask, files, call, gen_calls>>

\* the comparison with the expected count   (lines 33-36)
Evaluate ==
    /\ pc = "Detected"
    /\ target_count' = rows * cols
    /\ fail_reported' = NeedsCorrection(count, rows * cols)
    /\ log' = Append(log, "evaluate")
    /\ pc' = "Evaluated"
    /\ UNCHANGED <<image_path, output_path, rows, cols, count,
                   true_positions, mask, files, call, gen_calls>>

\* 2. Calculate Truth   (lines 38-50); runs whatever the comparison said
Plan ==
    /\ pc = "Evaluated"
    /\ true_positions' = PipelinePositions(rows, cols)
    /\ log' = Append(log, "plan")
    /\ pc' = "Planned"
    /\ UNCHANGED <<image_path, output_path, rows, cols, count, target_count,
                   fail_reported, mask, files, call, gen_calls>>

\* 3. Visualization   (lines 52-63)
Render ==
    /\ pc = "Planned"
    /\ mask' = <<PipelineMask(true_positions)>>
    /\ log' = Append(log, "render")
    /\ pc' = "Rendered"
    /\ UNCHANGED <<image_path, output_path, rows, cols, count, target_count,
                   fail_reported, true_positions, files, call, gen_calls>>

\* mask.save(...)   (lines 65-66)
Save ==
    /\ pc = "Rendered"
    /\ files' = WriteFile(files, MaskPath(output_path), mask[1])
    /\ log' = Append(log, "save")
    /\ pc' = "Saved"
    /\ UNCHANGED <<image_path, output_path, rows, cols, count, target_count,
                   fail_reported, true_positions, mask, call, gen_calls>>

\* 4. the simulated ControlNet step, then the return   (lines 68-71):
\* it only prints; no prompt exists and nothing is written to output_path
Generate ==
    /\ pc = "Saved"
    /\ log' = Append(log, "generate")
    /\ pc' = "Done"
    /\ UNCHANGED <<image_path, output_path, rows, cols, count, target_count,
                   fail_reported, true_positions, mask, files, call, gen_calls>>

\* ------------------------------------------- direct calls of the library
\* one call per run, made instead of the pipeline
CallGridPositions ==
    \E tl \in TopLefts, r \in (0 - 1)..MaxDim, c \in (0 - 1)..MaxDim,
       cw \in CellSizes, ch \in CellSizes, sp \in Spacings :
        /\ pc = "idle"
        /\ call.op = "none"
        /\ call' = [op |-> "calculate_grid_positions",
                    args |-> <<tl, r, c, cw, ch, sp>>,
                    result |-> Returned(calculate_grid_positions(tl, r, c, cw, ch, sp)),
                    points |-> <<>>]
        /\ UNCHANGED pipeline_vars

CallSpiralPositions ==
    \E n \in (0 - 1)..MaxCount, ty \in SpiralTypes, a \in GrowthA,
       sa \in StartAngles, tu \in Turns :
        /\ pc = "idle"
        /\ call.op = "none"
        /\ call' = [op |-> "calculate_spiral_positions",
                    args |-> <<n, ty, a, sa, tu>>,
                    result |-> Returned(calculate_spiral_positions(
                                  <<Rat(512), Rat(512)>>, n, ty, a, <<7, 20>>, sa, tu)),
                    points |-> <<>>]
        /\ UNCHANGED pipeline_vars

CallGridMask ==
    \E w \in CanvasSizes, h \in CanvasSizes,
       r \in (0 - 1)..MaxDim, c \in (0 - 1)..MaxDim :
        /\ pc = "idle"
        /\ call.op = "none"
        /\ call' = [op |-> "generate_grid_mask",
                    args |-> <<w, h, r, c>>,
                    result |-> generate_grid_mask(w, h, r, c),
                    points |-> IF generate_grid_mask(w, h, r, c).raised = "none"
                               THEN GridMaskCenters(w, h, r, c) ELSE <<>>]
        /\ UNCHANGED pipeline_vars

CallSpiralMask ==
    \E w \in CanvasSizes, h \in CanvasSizes, n \in (0 - 1)..MaxCount :
        /\ pc = "idle"
        /\ call.op = "none"
        /\ call' = [op |-> "generate_spiral_mask",
                    args |-> <<w, h, n>>,
                    result |-> generate_spiral_mask(w, h, n),
                    points |-> IF generate_spiral_mask(w, h, n).raised = "none"
                               THEN SpiralMaskPoints(w, h, n) ELSE <<>>]
        /\ UNCHANGED pipeline_vars

CallMandalaMask ==
    \E w \in CanvasSizes, h \in CanvasSizes :
        /\ pc = "idle"
        /\ call.op = "none"
        /\ call' = [op |-> "generate_mandala_mask",
                    args |-> <<w, h>>,
                    result |-> generate_mandala_mask(w, h, 12, <<>>),
                    points |-> <<>>]
        /\ UNCHANGED pipeline_vars

CallAnalyze ==
    \E ip \in ImagePaths, pr \in Prompts :
        /\ pc = "idle"
        /\ call.op = "none"
        /\ call' = [op |-> "analyze",
                    args |-> <<ip, pr>>,
                    result |-> analyze(ip, pr),
                    points |-> <<>>]
        /\ UNCHANGED pipeline_vars

CallGenerate ==
    \E pr \in Prompts, w \in CanvasSizes :
        /\ pc = "idle"
        /\ call.op = "none"
        /\ call' = [op |-> "generate",
                    args |-> <<pr, w>>,
                    result |-> generate(pr, generate_grid_mask(w, w, 2, 2), "local_flux_dev"),
                    points |-> <<>>]
        /\ gen_calls' = Append(gen_calls,
                               [prompt |-> pr,
                                control_image |-> generate_grid_mask(w, w, 2, 2)])
        /\ UNCHANGED <<pc, image_path, output_path, rows, cols, count, target_count,
                       fail_reported, true_positions, mask, files, log>>

Next ==
    \/ Enter
    \/ Detect
    \/ Evaluate
    \/ Plan
    \/ Render
    \/ Save
    \/ Generate
    \/ CallGridPositions
    \/ CallSpiralPositions
    \/ CallGridMask
    \/ CallSpiralMask
    \/ CallMandalaMask
    \/ CallAnalyze
    \/ CallGenerate

Spec == Init /\ [][Next]_vars

\* ============================================================= properties
\* the outlines of a mask, in drawing order (the number overlays left out)
IsOutline(o) == o.shape # "text"
Outlines(m) == SelectSeq(m.ops, IsOutline)

\* the centre of a box <<x1, y1, x2, y2>>
BoxCenter(box) ==
    <<RDiv(RAdd(box[1], box[3]), Rat(2)), RDiv(RAdd(box[2], box[4]), Rat(2))>>

RECURSIVE RSum(_, _)
RSum(seq, k) == IF seq = <<>> THEN Rat(0)
                ELSE RAdd(Head(seq)[k], RSum(Tail(seq), k))
Centroid(points) ==
    <<RDiv(RSum(points, 1), Rat(Len(points))), RDiv(RSum(points, 2), Rat(Len(points)))>>

InLog(stage) == \E k \in 1..Len(log) : log[k] = stage

IsPrefix(a, b) == Len(a) <= Len(b) /\ \A k \in 1..Len(a) : a[k] = b[k]

StageOrder == <<"perception", "evaluate", "plan", "render", "save", "generate">>

\* C1: a run whose detected count equals rows*cols ends with no planning,
\* no mask produced or saved and the generation step not run.
C1_PassedRunTakesNoAction ==
    (pc = "Done" /\ count = target_count) =>
        /\ ~InLog("plan")
        /\ mask = <<>>
        /\ DOMAIN files = {}
        /\ ~InLog("generate")

C3_GridRowMajor ==
    call.op = "calculate_grid_positions" =>
        LET tl == call.args[1]
            r == Max(0, call.args[2])
            c == Max(0, call.args[3])
            cw == call.args[4]
            ch == call.args[5]
            sp == call.args[6]
            res == call.result.value
        IN  /\ Len(res) = r * c
            /\ \A row \in 0..(r - 1) : \A col \in 0..(c - 1) :
                 res[row * c + col + 1] =
                   << RAdd(tl[1], RAdd(RMul(Rat(col), RAdd(cw, sp)), RDiv(cw, Rat(2)))),
                      RAdd(tl[2], RAdd(RMul(Rat(row), RAdd(ch, sp)), RDiv(ch, Rat(2)))) >>

C3_Witness ==
    /\ call.op = "calculate_grid_positions"
    /\ call.args[2] = 2 /\ call.args[3] = 3
    /\ call.args[4] # call.args[5]
    /\ Len(call.result.value) = 6

\* C4: for rows, cols >= 1 the centroid of the planned cell centres is the
\* canvas centre, in generate_grid_mask and in correct_image_grid.
C4_GridCentredInBothCallers ==
    /\ (call.op = "generate_grid_mask" /\ call.result.raised = "none"
          /\ call.args[3] >= 1 /\ call.args[4] >= 1) =>
         Centroid(call.points) =
           <<RDiv(Rat(call.args[1]), Rat(2)), RDiv(Rat(call.args[2]), Rat(2))>>
    /\ (InLog("plan") /\ rows >= 1 /\ cols >= 1) =>
         Centroid(true_positions) = <<Rat(512), Rat(512)>>

\* C5 (as stated): for count >= 2 the angle of consecutive spiral points is
\* strictly increasing, whatever the curve type, start angle and turns.
C5_ThetaIncreasesForAnyTurns ==
    (call.op = "calculate_spiral_positions" /\ call.args[1] >= 2) =>
        \A k \in 1..(Len(call.result.value) - 1) :
            RLt(call.result.value[k].theta, call.result.value[k + 1].theta)

\* C5 (amended): for count >= 2 and turns > 0 the angle of consecutive
\* spiral points is strictly increasing.
C5_ThetaIncreasesForPositiveTurns ==
    (call.op = "calculate_spiral_positions" /\ call.args[1] >= 2
        /\ RLt(Rat(0), call.args[5])) =>
        /\ Len(call.result.value) = call.args[1]
        /\ \A k \in 1..(Len(call.result.value) - 1) :
             RLt(call.result.value[k].theta, call.result.value[k + 1].theta)

C5_Witness ==
    /\ call.op = "calculate_spiral_positions"
    /\ call.args[1] = 3
    /\ call.args[5] = <<5, 2>>
    /\ RLt(call.result.value[1].theta, call.result.value[3].theta)

\* C6: calculate_spiral_positions returns exactly count points (none for
\* count = 0); with count = 1 the single point is at t = 0, theta = the start
\* angle; with count >= 2 point i is at t = i/(count-1).
C6_SpiralCountAndParameter ==
    (call.op = "calculate_spiral_positions" /\ call.args[1] >= 0) =>
        LET n == call.args[1]
            start == RDiv(call.args[4], Rat(180))
            total == RMul(Rat(2), call.args[5])
            res == call.result.value
        IN  /\ call.result.raised = "none"
            /\ Len(res) = n
            /\ n = 1 => res[1].theta = start
            /\ n >= 2 => \A i \in 0..(n - 1) :
                 res[i + 1].theta = RAdd(start, RMul(<<i, n - 1>>, total))

C6_Witness ==
    /\ call.op = "calculate_spiral_positions"
    /\ call.args[1] = 1
    /\ call.args[4] = Rat(90)
    /\ Len(call.result.value) = 1
    /\ call.result.value[1].theta = <<1, 2>>

\* C7: every mask has as many outlines as planned points, the k-th outline
\* centred on the k-th point; for rows, cols >= 1 a grid mask has rows*cols
\* pairwise distinct squares.
DistinctBoxes(shapes) ==
    \A j \in 1..Len(shapes) : \A k \in 1..Len(shapes) :
        j # k => shapes[j].box # shapes[k].box

C7_OneOutlinePerPointInOrder ==
    /\ (call.op = "generate_grid_mask" /\ call.result.raised = "none") =>
        LET shapes == Outlines(call.result.value)
        IN  /\ Len(shapes) = Len(call.points)
            /\ \A k \in 1..Len(shapes) : BoxCenter(shapes[k].box) = call.points[k]
            /\ (call.args[3] >= 1 /\ call.args[4] >= 1) =>
                 /\ Len(shapes) = call.args[3] * call.args[4]
                 /\ DistinctBoxes(shapes)
    /\ (call.op = "generate_spiral_mask" /\ call.result.raised = "none") =>
        LET shapes == Outlines(call.result.value)
        IN  /\ Len(shapes) = Len(call.points)
            /\ \A k \in 1..Len(shapes) : shapes[k].center = call.points[k]
    /\ mask # <<>> =>
        LET shapes == Outlines(mask[1])
        IN  /\ Len(shapes) = Len(true_positions)
            /\ \A k \in 1..Len(shapes) : BoxCenter(shapes[k].box) = true_positions[k]
            /\ (rows >= 1 /\ cols >= 1) =>
                 /\ Len(shapes) = rows * cols
                 /\ DistinctBoxes(shapes)

C7_Witness ==
    /\ call.op = "generate_grid_mask"
    /\ call.result.raised = "none"
    /\ call.args[1] = 300
    /\ call.args[3] = 2 /\ call.args[4] = 3
    /\ Len(Outlines(call.result.value)) = 6

\* C8: a render call with a canvas width or height <= 0 fails with
\* InvalidGeometry and returns no image.
C8_NonPositiveCanvasRejected ==
    (call.op \in {"generate_grid_mask", "generate_spiral_mask"}
        /\ (call.args[1] <= 0 \/ call.args[2] <= 0)) =>
        call.result.raised = "InvalidGeometry"

\* C9: a pattern or curve type the planner does not implement ends in an
\* UnsupportedPattern error, never in a normal result.
C9_UnsupportedPatternRejected ==
    /\ (call.op = "calculate_spiral_positions"
          /\ call.args[2] \notin {"archimedean", "logarithmic"}) =>
         call.result.raised = "UnsupportedPattern"
    /\ call.op = "generate_mandala_mask" =>
         call.result.raised = "UnsupportedPattern"
    /\ (call.op = "analyze"
          /\ ~Contains(<<"g","r","i","d">>, Lower(call.args[2]))
          /\ ~Contains(<<"s","p","i","r","a","l">>, Lower(call.args[2]))) =>
         call.result.raised = "UnsupportedPattern"

\* C10 (as stated): the stages run in the fixed order, each at most once,
\* and the mask is on disk at a path the caller specified before the
\* generation step starts.
C10_MaskAtCallerPathBeforeGeneration ==
    /\ IsPrefix(log, StageOrder)
    /\ pc = "Done" => log = StageOrder
    /\ InLog("save") =>
        \E q \in {image_path, output_path} :
            q \in DOMAIN files /\ files[q] = mask[1]

\* C10 (amended): the stages run in the fixed order perception, evaluate,
\* plan, render, save, generate, each at most once, and the mask is on disk
\* at the fixed path debug_mask_grid.png, whatever paths the caller gave,
\* before the generation step starts.
C10_StagesInOrderMaskAtFixedPath ==
    /\ IsPrefix(log, StageOrder)
    /\ pc = "Done" => log = StageOrder
    /\ InLog("save") =>
        /\ DOMAIN files = {"debug_mask_grid.png"}
        /\ files["debug_mask_grid.png"] = mask[1]
    /\ ~InLog("save") => DOMAIN files = {}

C10_Witness ==
    /\ pc = "Done"
    /\ output_path = "corrected_grid.png"
    /\ log = StageOrder
    /\ "debug_mask_grid.png" \in DOMAIN files

====
